---- MODULE Spec2Model ----
(***************************************************************************)
(* Model of backup.py: an asyncio program that backs up the running        *)
(* configuration of every device of an inventory into a git working tree.  *)
(*                                                                         *)
(* main() bootstraps the repository (clone_repo), creates one              *)
(* backup_config task per inventory row and gathers them.  The tasks run   *)
(* on one asyncio event loop: a task keeps the loop until it suspends at   *)
(* an await that cannot complete at once, or until it returns.  The only   *)
(* await of backup_config that can suspend is the semaphore acquire;       *)
(* ConnectHandler, open/write and subprocess.run are blocking calls, and   *)
(* git_commit_and_push contains no await.                                  *)
(***************************************************************************)
EXTENDS Naturals, Integers, Sequences, FiniteSets, TLC

\* ---------------------------------------------------------------- bounds
NumDevices == 2        \* rows of devices.csv
MaxCapacity == 1       \* limiter capacities tried besides the default
MaxOutput == 1         \* distinct configuration texts a device can return
MaxTextLen == 3        \* tokens of a commit stdout in ClassifySpec

\* ------------------------------------------------------ program constants
MAX_CONCURRENT_BACKUPS == 10
max_retries == 5

Devices == 1 .. NumDevices
Capacities == (1 .. MaxCapacity) \cup {MAX_CONCURRENT_BACKUPS}
Outputs == 1 .. MaxOutput

\* filename = f'{platform}-{role}-{ip}-config.txt': one file per inventory
\* row; the rows are numbered, and so are their files.
Filename(d) == d
Files == {Filename(d) : d \in Devices}

\* Content of a file of the working tree, of the index or of HEAD: no file,
\* or the one text it holds.  Text 0 is the empty text that open(..., 'w+')
\* leaves when the write after it fails.
Absent == {}
Truncated == {0}

VARIABLES
    capacity,        \* the value the semaphore was created with
    sem_value,       \* semaphore._value
    waiters,         \* semaphore._waiters: tasks suspended in acquire()
    ready,           \* the event loop's FIFO of tasks ready to run
    running,         \* the task that has the event loop ({} when none)
    mainpc,          \* position of main()
    exit_code,       \* process exit status ({} while running)
    cwd,             \* the process-wide current directory
    pc,              \* position of each backup_config task
    retry_count,     \* the loop variable of each task
    output,          \* the local `output` of each task
    result,          \* terminal outcomes reported for each device
    add_returncode,  \* add_process.returncode of the device's transaction
    commit_stdout,   \* commit_process.stdout
    commit_outcome,  \* branch taken at lines 110-117
    push_returncode, \* push_process.returncode
    git_exception,   \* the except clause of git_commit_and_push ran
    steps,           \* git processes run by the device's transaction
    worktree,        \* content of each file in the working tree
    index,           \* content of each file in the git index
    head,            \* content of each file at HEAD
    base,            \* content of each file at HEAD when the run started
    history,         \* commits this run added to the local branch
    remote           \* how many of them the remote has

vars == <<capacity, sem_value, waiters, ready, running, mainpc, exit_code, cwd,
          pc, retry_count, output, result, add_returncode,
          commit_stdout, commit_outcome, push_returncode, git_exception, steps,
          worktree, index, head, base, history, remote>>

sched == <<sem_value, waiters, ready, running>>
mainv == <<mainpc, exit_code>>
gitlocals == <<add_returncode, commit_stdout, commit_outcome, push_returncode,
               git_exception, steps>>
repo == <<index, head, history, remote>>

\* ------------------------------------------------- commit stdout as text
\* A stdout is a sequence of tokens: the phrases the code searches for, the
\* newline, and any other run of characters.
NothingToCommit == [t |-> "nothing to commit", f |-> 0]
Backup(file) == [t |-> "backup", f |-> file]
Newline == [t |-> "\n", f |-> 0]
Comma == [t |-> ",", f |-> 0]
Other == [t |-> "other", f |-> 0]
Tokens == {NothingToCommit, Newline, Other} \cup {Backup(f) : f \in Files}

RECURSIVE LStrip(_)
LStrip(s) == IF s # <<>> /\ Head(s) = Newline THEN LStrip(Tail(s)) ELSE s

RECURSIVE RStrip(_)
RStrip(s) ==
    IF s # <<>> /\ s[Len(s)] = Newline THEN RStrip(SubSeq(s, 1, Len(s) - 1)) ELSE s

\* str.strip()
Strip(s) == RStrip(LStrip(s))

\* re.sub(r'\n+', ',', s): every maximal run of newlines becomes one comma
RECURSIVE SubNewlines(_)
SubNewlines(s) ==
    IF s = <<>> THEN <<>>
    ELSE IF Head(s) = Newline
         THEN <<Comma>> \o SubNewlines(LStrip(s))
         ELSE <<Head(s)>> \o SubNewlines(Tail(s))

\* phrase in text
Contains(text, phrase) == \E i \in 1 .. Len(text) : text[i] = phrase

\* Mutant: the acknowledgment is looked for before "nothing to commit".
CommitOutcomeAckFirst(stdout, filename) ==
    LET text == SubNewlines(Strip(stdout)) IN
    IF Contains(text, Backup(filename)) THEN "Committed"
    ELSE IF Contains(text, NothingToCommit) THEN "NoChange"
    ELSE "Failed"

\* The branch of lines 110-117 taken for a commit stdout
CommitOutcome(stdout, filename) ==
    LET text == SubNewlines(Strip(stdout)) IN
    IF Contains(text, NothingToCommit) THEN "NoChange"
    ELSE IF Contains(text, Backup(filename)) THEN "Committed"
    ELSE "Failed"

\* ------------------------------------------------------------------ Init
Init ==
    /\ capacity \in Capacities
    /\ sem_value = capacity
    /\ waiters = <<>>
    /\ ready = <<>>
    /\ running = {}
    /\ mainpc = "clone"
    /\ exit_code = {}
    /\ cwd = "launch_dir"
    /\ pc = [d \in Devices |-> "unborn"]
    /\ retry_count = [d \in Devices |-> 0]
    /\ output = [d \in Devices |-> Absent]
    /\ result = [d \in Devices |-> <<>>]
    /\ add_returncode = [d \in Devices |-> "unset"]
    /\ commit_stdout = [d \in Devices |-> <<>>]
    /\ commit_outcome = [d \in Devices |-> "none"]
    /\ push_returncode = [d \in Devices |-> "unset"]
    /\ git_exception = [d \in Devices |-> FALSE]
    /\ steps = [d \in Devices |-> <<>>]
    /\ base \in {[f \in Files |-> c] : c \in {Absent, {1}}}
    /\ worktree = base
    /\ index = base
    /\ head = base
    /\ history = <<>>
    /\ remote = 0

\* ---------------------------------------------------------------- main()
\* clone_repo: chdir(script_dir); clone only when pro_dir does not exist; a
\* non-zero exit of git clone, or an exception, ends the process with 1.
\* Mutant: the failure is logged and remembered, and main goes on.
AfterCloneFailureGoesOn == "read"

\* sys.exit(1) at lines 44 and 49: SystemExit is no Exception, nothing
\* catches it, the process ends there.
AfterCloneFailure == "exited"

CloneRepo ==
    /\ mainpc = "clone"
    /\ cwd' = "script_dir"
    /\ \E r \in {"exists", "cloned", "failed"} :
          IF r = "failed"
          THEN mainpc' = AfterCloneFailure /\ exit_code' = {1}
          ELSE mainpc' = "read" /\ exit_code' = exit_code
    /\ UNCHANGED <<capacity, sched, pc, retry_count, output, result,
                   gitlocals, worktree, repo, base>>

\* One backup_config coroutine per row; gather() makes them tasks, which
\* the loop will start in the order of the rows.  The inventory is taken
\* as read: devices.csv is there and has its five columns.
RECURSIVE Rows(_)
Rows(n) == IF n = 0 THEN <<>> ELSE Append(Rows(n - 1), n)

CreateTasks ==
    /\ mainpc = "read"
    /\ mainpc' = "gather"
    /\ pc' = [d \in Devices |-> "start"]
    /\ ready' = Rows(NumDevices)
    /\ UNCHANGED <<capacity, sem_value, waiters, running, exit_code, cwd,
                   retry_count, output, result, gitlocals, worktree,
                   repo, base>>

\* The event loop gives the first ready task the thread.
RunNext ==
    /\ mainpc = "gather"
    /\ running = {}
    /\ ready # <<>>
    /\ running' = {Head(ready)}
    /\ ready' = Tail(ready)
    /\ UNCHANGED <<capacity, sem_value, waiters, mainv, cwd, pc, retry_count,
                   output, result, gitlocals, worktree, repo, base>>

\* Mutant: the wait returns when the first task has finished.
GatherFirstCompleted == \E d \in Devices : pc[d] = "done"

\* await asyncio.gather(*tasks) returns when every task has returned
GatherReturns == \A d \in Devices : pc[d] = "done"

\* Mutant: a device that failed for good makes the process fail.
ExitStatusCountsFailures ==
    IF \E d \in Devices : result[d] = <<"PermanentFailure">> THEN {1} ELSE {0}

\* asyncio.run(main()) returns and the interpreter exits normally.
ExitStatus == {0}

MainReturns ==
    /\ mainpc = "gather"
    /\ running = {}
    /\ GatherReturns
    /\ mainpc' = "done"
    /\ exit_code' = ExitStatus
    /\ UNCHANGED <<capacity, sched, cwd, pc, retry_count, output,
                   result, gitlocals, worktree, repo, base>>

\* -------------------------------------------------------- backup_config
Runs(d) == mainpc = "gather" /\ running = {d}

\* Mutant: the limiter admits every caller and only yields to the loop.
AcquireUnbounded(d) ==
    /\ Runs(d)
    /\ pc[d] = "start"
    /\ pc' = [pc EXCEPT ![d] = "connect"]
    /\ ready' = Append(ready, d)
    /\ running' = {}
    /\ UNCHANGED <<capacity, sem_value, waiters, mainv, cwd, retry_count,
                   output, result, gitlocals, worktree, repo, base>>

\* async with semaphore (acquire): take a slot when one is free, else
\* suspend in the waiters' queue until a release wakes the task.
Acquire(d) ==
    /\ Runs(d)
    /\ pc[d] = "start"
    /\ IF sem_value > 0
       THEN /\ sem_value' = sem_value - 1
            /\ pc' = [pc EXCEPT ![d] = "connect"]
            /\ UNCHANGED <<waiters, running>>
       ELSE /\ waiters' = Append(waiters, d)
            /\ pc' = [pc EXCEPT ![d] = "waiting"]
            /\ running' = {}
            /\ UNCHANGED sem_value
    /\ UNCHANGED <<capacity, ready, mainv, cwd, retry_count, output,
                   result, gitlocals, worktree, repo, base>>

\* Mutant: one attempt more than max_retries.
MoreAttemptsOneMore(rc) == rc + 1 < max_retries + 1

\* for retry_count in range(max_retries): is there a next iteration
MoreAttempts(rc) == rc + 1 < max_retries

\* Mutant: the last failure is logged as one more retry.
LastAttemptNever(rc) == FALSE

\* not (retry_count < max_retries - 1): the failure that logs
\* 'Max retries reached ..., backup failed.'
LastAttempt(rc) == ~(rc < max_retries - 1)

\* except Exception (lines 86-93), then the next iteration of the loop or
\* the end of it.
Except(d) ==
    /\ result' = IF LastAttempt(retry_count[d])
                 THEN [result EXCEPT ![d] = Append(@, "PermanentFailure")]
                 ELSE result
    /\ IF MoreAttempts(retry_count[d])
       THEN /\ retry_count' = [retry_count EXCEPT ![d] = @ + 1]
            /\ pc' = [pc EXCEPT ![d] = "connect"]
       ELSE /\ pc' = [pc EXCEPT ![d] = "release"]
            /\ UNCHANGED retry_count

\* ConnectHandler(**device) returns a session
Connect(d) ==
    /\ Runs(d)
    /\ pc[d] = "connect"
    /\ pc' = [pc EXCEPT ![d] = "negotiate"]
    /\ UNCHANGED <<capacity, sched, mainv, cwd, retry_count, output, result,
                   gitlocals, worktree, repo, base>>

\* ConnectHandler(**device) raises (unreachable, authentication, ...)
ConnectFails(d) ==
    /\ Runs(d)
    /\ pc[d] = "connect"
    /\ Except(d)
    /\ UNCHANGED <<capacity, sched, mainv, cwd, output, gitlocals, worktree,
                   repo, base>>

\* find_prompt and the platform's pagination commands (lines 65-73)
Negotiate(d) ==
    /\ Runs(d)
    /\ pc[d] = "negotiate"
    /\ pc' = [pc EXCEPT ![d] = "fetch"]
    /\ UNCHANGED <<capacity, sched, mainv, cwd, retry_count, output,
                   result, gitlocals, worktree, repo, base>>

NegotiateFails(d) ==
    /\ Runs(d)
    /\ pc[d] = "negotiate"
    /\ Except(d)
    /\ UNCHANGED <<capacity, sched, mainv, cwd, output, gitlocals,
                   worktree, repo, base>>

\* output = conn.send_command(...), then the session is closed
Fetch(d) ==
    /\ Runs(d)
    /\ pc[d] = "fetch"
    /\ \E o \in Outputs : output' = [output EXCEPT ![d] = {o}]
    /\ pc' = [pc EXCEPT ![d] = "write"]
    /\ UNCHANGED <<capacity, sched, mainv, cwd, retry_count, result,
                   gitlocals, worktree, repo, base>>

\* Mutant: the file is opened for writing before the command is sent, so a
\* failed fetch leaves it truncated.
FetchFailsAfterOpen(d) ==
    /\ Runs(d)
    /\ pc[d] = "fetch"
    /\ worktree' = [worktree EXCEPT ![Filename(d)] = Truncated]
    /\ Except(d)
    /\ UNCHANGED <<capacity, sched, mainv, cwd, output, gitlocals,
                   repo, base>>

FetchFails(d) ==
    /\ Runs(d)
    /\ pc[d] = "fetch"
    /\ Except(d)
    /\ UNCHANGED <<capacity, sched, mainv, cwd, output, gitlocals,
                   worktree, repo, base>>

\* with open(..., 'w+') as f: f.write(output)
Write(d) ==
    /\ Runs(d)
    /\ pc[d] = "write"
    /\ worktree' = [worktree EXCEPT ![Filename(d)] = output[d]]
    /\ pc' = [pc EXCEPT ![d] = "chdir"]
    /\ UNCHANGED <<capacity, sched, mainv, cwd, retry_count, output,
                   result, gitlocals, repo, base>>

\* open raises (the file is left as it was), or write raises after open
\* has truncated the file
WriteFails(d) ==
    /\ Runs(d)
    /\ pc[d] = "write"
    /\ \E opened \in BOOLEAN :
          worktree' = IF opened
                      THEN [worktree EXCEPT ![Filename(d)] = Truncated]
                      ELSE worktree
    /\ Except(d)
    /\ UNCHANGED <<capacity, sched, mainv, cwd, output, gitlocals,
                   repo, base>>

\* -------------------------------------------------- git_commit_and_push
\* os.chdir(pro_dir)
GitChdir(d) ==
    /\ Runs(d)
    /\ pc[d] = "chdir"
    /\ cwd' = "pro_dir"
    /\ pc' = [pc EXCEPT ![d] = "git_add"]
    /\ UNCHANGED <<capacity, sched, mainv, retry_count, output,
                   result, gitlocals, worktree, repo, base>>

\* A git command finds the repository from the current directory.
InRepository == cwd = "pro_dir"

\* Mutant: the subprocess is awaited, so the loop runs other tasks meanwhile.
AfterSubprocessYield(d) ==
    /\ running' = {}
    /\ ready' = Append(ready, d)

\* subprocess.run blocks: the task keeps the event loop.
AfterSubprocess(d) == UNCHANGED <<ready, running>>

\* Mutant: a failed stage step ends the transaction.
AfterAddStrict(rc) == IF rc = "zero" THEN "git_commit" ELSE "git_finally"

\* Lines 103-108: the exit status of git add is logged, and the commit
\* step is next whatever it was.
AfterAdd(rc) == "git_commit"

\* git add {filename} returns: with exit 0 the index takes the file as it
\* is in the working tree; a non-zero exit is logged and nothing else.
GitAdd(d) ==
    /\ Runs(d)
    /\ pc[d] = "git_add"
    /\ steps' = [steps EXCEPT ![d] = Append(@, "add")]
    /\ \E rc \in {"zero", "nonzero"} :
          /\ rc = "zero" => InRepository
          /\ add_returncode' = [add_returncode EXCEPT ![d] = rc]
          /\ index' = IF rc = "zero"
                      THEN [index EXCEPT ![Filename(d)] = worktree[Filename(d)]]
                      ELSE index
          /\ pc' = [pc EXCEPT ![d] = AfterAdd(rc)]
    /\ AfterSubprocess(d)
    /\ UNCHANGED <<capacity, sem_value, waiters, mainv, cwd, retry_count,
                   output, result, commit_stdout, commit_outcome,
                   push_returncode, git_exception, worktree, head, history,
                   remote, base>>

\* Files whose staged content differs from HEAD: what git commit records.
Staged == {f \in Files : index[f] # head[f]}

\* Mutant: git commit --allow-empty.
NothingStagedNever == FALSE

NothingStaged == Staged = {}

\* Stdout of a git commit that records a commit: the summary line with the
\* subject 'backup {filename} {now}', then the change statistics.
CommittedStdout(d) == <<Other, Backup(Filename(d)), Newline, Other>>

\* Stdout of a git commit with nothing staged: the status, ending in
\* "nothing to commit, working tree clean" or, with unstaged or untracked
\* files about, in "no changes added to commit" / "nothing added to commit
\* but untracked files present".
NothingStdout ==
    IF worktree = index
    THEN <<Other, Newline, NothingToCommit, Newline>>
    ELSE <<Other, Newline, Other, Newline>>

\* commit_result = re.sub(r'\n+', ',', commit_process.stdout.strip())
CommitResult(d) == SubNewlines(Strip(commit_stdout[d]))

\* The commit process has printed stdout: the branch of lines 110-117
Classify(d, stdout) ==
    /\ commit_stdout' = [commit_stdout EXCEPT ![d] = stdout]
    /\ commit_outcome' =
          [commit_outcome EXCEPT ![d] = CommitOutcome(stdout, Filename(d))]

\* git commit -m "backup {filename} {now}" returns: it records everything
\* staged, or reports that there is nothing, or fails printing to stderr.
GitCommit(d) ==
    /\ Runs(d)
    /\ pc[d] = "git_commit"
    /\ steps' = [steps EXCEPT ![d] = Append(@, "commit")]
    /\ \E ran \in BOOLEAN :
          /\ ran => InRepository
          /\ IF ~ran
             THEN /\ Classify(d, <<>>)
                  /\ UNCHANGED <<head, history>>
             ELSE IF NothingStaged
             THEN /\ Classify(d, NothingStdout)
                  /\ UNCHANGED <<head, history>>
             ELSE /\ Classify(d, CommittedStdout(d))
                  /\ history' = Append(history,
                                       [msg |-> Filename(d), files |-> Staged])
                  /\ head' = index
    /\ pc' = [pc EXCEPT ![d] = "git_push"]
    /\ AfterSubprocess(d)
    /\ UNCHANGED <<capacity, sem_value, waiters, mainv, cwd, retry_count,
                   output, result, add_returncode, push_returncode,
                   git_exception, worktree, index, remote, base>>

\* git push returns: with exit 0 the remote has every local commit
\* Mutant: a push delivers one commit, the oldest the remote lacks.
PushedOneCommit == IF remote < Len(history) THEN remote + 1 ELSE remote

\* `git push` without a refspec: the remote branch is brought up to the
\* local branch, with every commit it lacks.
Pushed == Len(history)

GitPush(d) ==
    /\ Runs(d)
    /\ pc[d] = "git_push"
    /\ steps' = [steps EXCEPT ![d] = Append(@, "push")]
    /\ \E rc \in {"zero", "nonzero"} :
          /\ rc = "zero" => InRepository
          /\ push_returncode' = [push_returncode EXCEPT ![d] = rc]
          /\ remote' = IF rc = "zero" THEN Pushed ELSE remote
    /\ pc' = [pc EXCEPT ![d] = "git_finally"]
    /\ AfterSubprocess(d)
    /\ UNCHANGED <<capacity, sem_value, waiters, mainv, cwd, retry_count,
                   output, result, add_returncode, commit_stdout,
                   commit_outcome, git_exception, worktree, index, head,
                   history, base>>

\* subprocess.run raises instead of returning (the shell cannot be started,
\* the output cannot be decoded): except Exception logs it and the rest of
\* the try block is skipped.
GitException(d) ==
    /\ Runs(d)
    /\ pc[d] \in {"git_add", "git_commit", "git_push"}
    /\ git_exception' = [git_exception EXCEPT ![d] = TRUE]
    /\ pc' = [pc EXCEPT ![d] = "git_finally"]
    /\ UNCHANGED <<capacity, sched, mainv, cwd, retry_count, output,
                   result, add_returncode, commit_stdout, commit_outcome,
                   push_returncode, steps, worktree, repo, base>>

\* os.chdir('..')
Parent(dir) == IF dir = "pro_dir" THEN "script_dir" ELSE "parent_dir"

\* finally: os.chdir('..'); the coroutine returns None to backup_config
GitFinally(d) ==
    /\ Runs(d)
    /\ pc[d] = "git_finally"
    /\ cwd' = Parent(cwd)
    /\ pc' = [pc EXCEPT ![d] = "break"]
    /\ UNCHANGED <<capacity, sched, mainv, retry_count, output,
                   result, gitlocals, worktree, repo, base>>

\* Mutant: no break, the loop goes on to its next iteration.
BreakMissing(d) ==
    /\ Runs(d)
    /\ pc[d] = "break"
    /\ result' = [result EXCEPT ![d] = Append(@, "Success")]
    /\ IF MoreAttempts(retry_count[d])
       THEN /\ retry_count' = [retry_count EXCEPT ![d] = @ + 1]
            /\ pc' = [pc EXCEPT ![d] = "connect"]
       ELSE /\ pc' = [pc EXCEPT ![d] = "release"]
            /\ UNCHANGED retry_count
    /\ UNCHANGED <<capacity, sched, mainv, cwd, output, gitlocals,
                   worktree, repo, base>>

\* break: the attempt succeeded, the loop ends
Break(d) ==
    /\ Runs(d)
    /\ pc[d] = "break"
    /\ result' = [result EXCEPT ![d] = Append(@, "Success")]
    /\ pc' = [pc EXCEPT ![d] = "release"]
    /\ UNCHANGED <<capacity, sched, mainv, cwd, retry_count, output,
                   gitlocals, worktree, repo, base>>

\* async with semaphore (exit): give the slot back and wake the first
\* waiter, which becomes ready and tries again.  The task returns, and its
\* locals and those of its git_commit_and_push call are gone.
\* Mutant: leaving the block does not give the slot back.
ReleasedLeak(v) == v

\* Semaphore.release(): the counter goes up by one.
Released(v) == v + 1

Release(d) ==
    /\ Runs(d)
    /\ pc[d] = "release"
    /\ sem_value' = Released(sem_value)
    /\ running' = {}
    /\ IF waiters # <<>>
       THEN /\ waiters' = Tail(waiters)
            /\ ready' = Append(ready, Head(waiters))
            /\ pc' = [pc EXCEPT ![d] = "done", ![Head(waiters)] = "start"]
       ELSE /\ pc' = [pc EXCEPT ![d] = "done"]
            /\ UNCHANGED <<waiters, ready>>
    /\ retry_count' = [retry_count EXCEPT ![d] = 0]
    /\ output' = [output EXCEPT ![d] = Absent]
    /\ add_returncode' = [add_returncode EXCEPT ![d] = "unset"]
    /\ commit_stdout' = [commit_stdout EXCEPT ![d] = <<>>]
    /\ push_returncode' = [push_returncode EXCEPT ![d] = "unset"]
    /\ git_exception' = [git_exception EXCEPT ![d] = FALSE]
    /\ steps' = [steps EXCEPT ![d] = <<>>]
    /\ UNCHANGED <<capacity, mainv, cwd, result, commit_outcome, worktree,
                   repo, base>>

Next ==
    \/ CloneRepo
    \/ CreateTasks
    \/ RunNext
    \/ MainReturns
    \/ \E d \in Devices :
          \/ Acquire(d)
          \/ Connect(d)
          \/ ConnectFails(d)
          \/ Negotiate(d)
          \/ NegotiateFails(d)
          \/ Fetch(d)
          \/ FetchFails(d)
          \/ Write(d)
          \/ WriteFails(d)
          \/ GitChdir(d)
          \/ GitAdd(d)
          \/ GitCommit(d)
          \/ GitPush(d)
          \/ GitException(d)
          \/ GitFinally(d)
          \/ Break(d)
          \/ Release(d)

Spec == Init /\ [][Next]_vars

\* Every blocking call returns and the event loop keeps running.
FairSpec == Spec /\ WF_vars(Next)

\* ------------------------------------------- the classification alone
\* The commit step of one device with an arbitrary stdout: every text of at
\* most MaxTextLen tokens, classified as lines 109-117 do.
RECURSIVE TextsUpTo(_)
TextsUpTo(n) ==
    IF n = 0 THEN {<<>>}
    ELSE LET shorter == TextsUpTo(n - 1) IN
         shorter \cup {Append(s, t) : s \in shorter, t \in Tokens}

ClassifyInit ==
    /\ capacity = MAX_CONCURRENT_BACKUPS
    /\ sem_value = capacity - 1
    /\ waiters = <<>>
    /\ ready = <<>>
    /\ mainpc = "gather"
    /\ exit_code = {}
    /\ cwd = "pro_dir"
    /\ \E d \in Devices :
          /\ running = {d}
          /\ pc = [e \in Devices |-> IF e = d THEN "git_commit" ELSE "done"]
          /\ \E text \in TextsUpTo(MaxTextLen) :
                commit_stdout = [e \in Devices |-> IF e = d THEN text ELSE <<>>]
          /\ steps = [e \in Devices |-> IF e = d THEN <<"add">> ELSE <<>>]
    /\ retry_count = [d \in Devices |-> 0]
    /\ output = [d \in Devices |-> Absent]
    /\ result = [d \in Devices |-> <<>>]
    /\ add_returncode = [d \in Devices |-> "unset"]
    /\ commit_outcome = [d \in Devices |-> "none"]
    /\ push_returncode = [d \in Devices |-> "unset"]
    /\ git_exception = [d \in Devices |-> FALSE]
    /\ base = [f \in Files |-> Absent]
    /\ worktree = base
    /\ index = base
    /\ head = base
    /\ history = <<>>
    /\ remote = 0

ClassifyStep(d) ==
    /\ Runs(d)
    /\ pc[d] = "git_commit"
    /\ Classify(d, commit_stdout[d])
    /\ steps' = [steps EXCEPT ![d] = Append(@, "commit")]
    /\ pc' = [pc EXCEPT ![d] = "git_push"]
    /\ UNCHANGED <<capacity, sched, mainv, cwd, retry_count, output, result,
                   add_returncode, push_returncode, git_exception, worktree,
                   repo, base>>

ClassifyNext == \E d \in Devices : ClassifyStep(d)

ClassifySpec == ClassifyInit /\ [][ClassifyNext]_vars

\* ---------------------------------------------------- observations
\* The task is inside `async with semaphore`: it has a limiter slot and
\* has not given it back.
InFlight(d) == pc[d] \notin {"unborn", "start", "waiting", "done"}

\* ConnectHandler calls made for the device by its task so far: one per
\* iteration of the loop that has passed line 64.
Attempts(d) ==
    IF ~InFlight(d) THEN 0
    ELSE IF pc[d] = "connect" THEN retry_count[d]
    ELSE retry_count[d] + 1

\* The stage step of the device's transaction has run, its push step has
\* not, and the transaction has not been abandoned.
InTransaction(d) == pc[d] \in {"git_commit", "git_push"}

AllSteps == <<"add", "commit", "push">>

IsPrefix(s, t) == Len(s) <= Len(t) /\ s = SubSeq(t, 1, Len(s))

\* The device's call of git_commit_and_push has returned.
TransactionOver(d) == pc[d] = "break"

CommitsOf(d) == {i \in 1 .. Len(history) : history[i].msg = Filename(d)}

\* ------------------------------------------------------------ claims

\* C1: at most `capacity` device tasks are between acquiring and releasing
\* the limiter slot, whatever the capacity and the number of devices; with
\* capacity 1 no two sessions overlap.
C1_SessionsBounded ==
    Cardinality({d \in Devices : InFlight(d)}) <= capacity

\* A session is open while another task has still to be admitted, with
\* fewer slots than devices.
C1_Witness ==
    /\ capacity < NumDevices
    /\ \E d, e \in Devices : pc[d] = "fetch" /\ pc[e] = "start"

\* C2: no stage, commit or push step of one file happens between the stage
\* step and the push step of another file.  A git step of e taken while d
\* is between its stage and its push leaves both inside a transaction, or
\* was taken with both inside one; so the claim is that no two devices are
\* inside a transaction in the same state.
C2_TransactionsAtomic ==
    \A d, e \in Devices : d # e => ~(InTransaction(d) /\ InTransaction(e))

\* A transaction is half done while another task waits for the loop.
C2_Witness ==
    \E d, e \in Devices : pc[d] = "git_push" /\ pc[e] = "start"

\* C3: a device is never attempted more than max_retries times, a permanent
\* failure is reported only after max_retries attempts, and a task whose
\* loop has ended without a success has made max_retries attempts and has
\* reported the permanent failure.
C3_RetryBound ==
    \A d \in Devices :
        /\ Attempts(d) <= max_retries
        /\ (InFlight(d) /\ result[d] # <<>> /\ Head(result[d]) = "PermanentFailure")
              => Attempts(d) = max_retries
        /\ (pc[d] = "release" /\ result[d] # <<"Success">>)
              => Attempts(d) = max_retries /\ result[d] = <<"PermanentFailure">>

\* A device has failed for good.
C3_Witness ==
    \E d \in Devices : pc[d] = "release" /\ result[d] = <<"PermanentFailure">>

\* C4: in a run whose bootstrap succeeds every device ends with exactly one
\* terminal outcome, Success or PermanentFailure, and never has two.
C4_OneTerminalOutcome ==
    /\ [](\A d \in Devices : Len(result[d]) <= 1)
    /\ <>[](mainpc = "exited" \/
            \A d \in Devices :
                pc[d] = "done" /\ result[d] \in {<<"Success">>, <<"PermanentFailure">>})

\* The run has ended with a success and a permanent failure.
C4_Witness ==
    /\ mainpc = "done"
    /\ \E d, e \in Devices :
          result[d] = <<"Success">> /\ result[e] = <<"PermanentFailure">>

\* C5: a task that has ended has its terminal outcome (none is cancelled),
\* and the run ends only after every task has ended, whatever the outcomes
\* of the others.
C5_NoSiblingAborted ==
    /\ \A d \in Devices : pc[d] = "done" => Len(result[d]) = 1
    /\ mainpc = "done" => \A d \in Devices : pc[d] = "done"

\* A device that ran after the permanent failure of another succeeded.
C5_Witness ==
    /\ mainpc = "done"
    /\ \E d, e \in Devices :
          d < e /\ result[d] = <<"PermanentFailure">> /\ result[e] = <<"Success">>

\* C6: once an attempt of a device has succeeded, its task is at the end of
\* the loop or has returned, the only positions from which no connect,
\* fetch, write or git step is taken; and the success is its only outcome.
C6_FirstSuccessWins ==
    \A d \in Devices :
        (result[d] # <<>> /\ Head(result[d]) = "Success")
            => pc[d] \in {"release", "done"} /\ result[d] = <<"Success">>

\* A success with attempts to spare.
C6_Witness ==
    \E d \in Devices :
        pc[d] = "release" /\ result[d] = <<"Success">> /\ Attempts(d) < max_retries

\* C7 as written: every transaction that has started has run stage, commit
\* and push when it is over.
C7_AllThreeSteps ==
    \A d \in Devices : TransactionOver(d) => steps[d] = AllSteps

\* C7 as amended: the steps run in the order stage, commit, push, and all
\* three run unless a git process raised, whatever the exit status of the
\* stage step and the outcome of the commit step.
C7_AllThreeUnlessRaised ==
    \A d \in Devices :
        /\ IsPrefix(steps[d], AllSteps)
        /\ (TransactionOver(d) /\ ~git_exception[d]) => steps[d] = AllSteps

\* A transaction ran all three steps after a failed stage step and a
\* failed commit step.
C7_Witness ==
    \E d \in Devices :
        /\ pc[d] = "break"
        /\ add_returncode[d] = "nonzero"
        /\ commit_outcome[d] = "Failed"
        /\ steps[d] = AllSteps

\* C8: the outcome of a commit step is NoChange if its text contains
\* "nothing to commit", else Committed if it contains "backup <filename>"
\* for the file of the transaction, else Failed.
C8_CommitClassification ==
    \A d \in Devices :
        pc[d] = "git_push" =>
            LET text == commit_stdout[d]
                nothing == \E i \in 1 .. Len(text) : text[i].t = "nothing to commit"
                ack == \E i \in 1 .. Len(text) :
                          text[i].t = "backup" /\ text[i].f = Filename(d)
            IN /\ nothing => commit_outcome[d] = "NoChange"
               /\ (~nothing /\ ack) => commit_outcome[d] = "Committed"
               /\ (~nothing /\ ~ack) => commit_outcome[d] = "Failed"

\* A text with both phrases was classified.
C8_Witness ==
    \E d \in Devices :
        /\ pc[d] = "git_push"
        /\ commit_outcome[d] = "NoChange"
        /\ \E i \in 1 .. Len(commit_stdout[d]) :
              commit_stdout[d][i] = Backup(Filename(d))

\* Every config file is in the working tree as the run found it committed.
Rerun == \A f \in Files : base[f] # Absent /\ worktree[f] = base[f]

\* C9: in a run that finds every configuration unchanged, the history gains
\* no commit, no commit step is classified Committed, and every commit
\* process that printed its status is classified NoChange.
C9_Idempotent ==
    Rerun =>
        /\ history = <<>>
        /\ head = base
        /\ \A d \in Devices :
              /\ commit_outcome[d] # "Committed"
              /\ (InFlight(d) /\ commit_outcome[d] # "none" /\ commit_stdout[d] # <<>>)
                    => commit_outcome[d] = "NoChange"

\* A whole run of unchanged devices.
C9_Witness ==
    /\ Rerun
    /\ mainpc = "done"
    /\ \A d \in Devices : commit_outcome[d] = "NoChange"

\* The commit step of the device's transaction did not happen or failed.
CommitLost(d) ==
    \/ commit_outcome[d] = "Failed"
    \/ /\ commit_outcome[d] = "none"
       /\ pc[d] \in {"git_finally", "break"} \/ result[d] = <<"Success">>

\* C10: as long as no commit step was lost to a git failure, the history
\* holds exactly one commit for every device that committed a changed
\* file, that commit records that file and no other, and what every
\* committing device wrote is at HEAD.
C10_OneCommitPerDevice ==
    (\A e \in Devices : ~CommitLost(e)) =>
        /\ \A d \in Devices :
              /\ commit_outcome[d] = "Committed" =>
                    /\ Cardinality(CommitsOf(d)) = 1
                    /\ \A i \in CommitsOf(d) : history[i].files = {Filename(d)}
              /\ commit_outcome[d] = "NoChange" => CommitsOf(d) = {}
              /\ commit_outcome[d] # "none" =>
                    /\ head[Filename(d)] = worktree[Filename(d)]
                    /\ worktree[Filename(d)] # base[Filename(d)]
                          => commit_outcome[d] = "Committed"
        /\ Len(history) = Cardinality({d \in Devices : commit_outcome[d] = "Committed"})

\* Every device of the run committed its changed file.
C10_Witness ==
    /\ mainpc = "done"
    /\ Len(history) = NumDevices
    /\ \A d \in Devices : commit_outcome[d] = "Committed" /\ CommitsOf(d) # {}

\* No task has started and nothing of the repository or of the config
\* files has been touched.
NothingDone ==
    /\ \A d \in Devices : pc[d] = "unborn" /\ steps[d] = <<>> /\ result[d] = <<>>
    /\ worktree = base /\ index = base /\ head = base
    /\ history = <<>> /\ remote = 0

\* C11: a failed bootstrap ends the run with a non-zero exit before any
\* device task starts: no session, no file written, no git transaction.
C11_CloneFailureIsFatal ==
    exit_code = {1} => mainpc = "exited" /\ NothingDone

\* The clone has failed.
C11_Witness == mainpc = "exited" /\ exit_code = {1} /\ cwd = "script_dir"

\* C12: a run whose bootstrap did not fail exits with status zero, whatever
\* became of its devices.
C12_ExitZero ==
    /\ mainpc = "done" => exit_code = {0}
    /\ exit_code # {} => mainpc \in {"done", "exited"}
    /\ mainpc = "exited" <=> exit_code = {1}

\* Exit zero after a permanent failure and a failed commit.
C12_Witness ==
    /\ exit_code = {0}
    /\ \E d, e \in Devices :
          result[d] = <<"PermanentFailure">> /\ commit_outcome[e] = "Failed"

Admitted(d) == pc[d] \notin {"unborn", "start", "waiting"}

\* Tasks are admitted in the order of their rows.
NoOvertaking ==
    \A d, e \in Devices : d < e /\ Admitted(e) => Admitted(d)

\* Some task is still waiting to be admitted.
SomeWaiting == \E d \in Devices : pc[d] \in {"start", "waiting"}

\* C15: every task that waits for a slot is eventually admitted (whenever
\* some task waits, a state follows in which all have been admitted), and
\* is overtaken by no more tasks than there are devices (here: by none).
C15_EventuallyAdmitted ==
    /\ []NoOvertaking
    /\ SomeWaiting ~> (\A d \in Devices : Admitted(d))

\* The only slot is taken and a later task is still to be admitted.
C15_Witness ==
    \E d, e \in Devices :
        /\ capacity = 1
        /\ sem_value = 0
        /\ InFlight(d)
        /\ pc[e] = "start"

\* C17: the attempt counter of a device moves on by one, from a step of the
\* running attempt that failed and to the connect of the next attempt, and
\* only while the device has no terminal result: attempts never overlap.
C17_AttemptsSequential ==
    [][\A d \in Devices :
          retry_count'[d] > retry_count[d] =>
              /\ retry_count'[d] = retry_count[d] + 1
              /\ pc[d] \in {"connect", "negotiate", "fetch", "write"}
              /\ pc'[d] = "connect"
              /\ result[d] = <<>>
              /\ running = {d}]_vars

\* A third attempt has got as far as its fetch.
C17_Witness ==
    \E d \in Devices : pc[d] = "fetch" /\ retry_count[d] = 2

\* Tasks holding a slot: from the acquire to the release.
Holders == {d \in Devices : InFlight(d)}

\* C18: free slots plus slot-holding tasks is the capacity, also across
\* retries, and all slots are free when the run has ended.
C18_SlotsConserved ==
    /\ sem_value + Cardinality(Holders) = capacity
    /\ mainpc = "done" => sem_value = capacity /\ Holders = {}

\* A task in a later attempt still holds the slot it took, after another
\* task has given its slot back.
C18_Witness ==
    \E d, e \in Devices :
        /\ retry_count[d] > 0
        /\ InFlight(d)
        /\ pc[e] = "done"
        /\ sem_value = capacity - 1

\* The commit pipeline of d went through without a failure.
PipelineClean(d) ==
    /\ add_returncode[d] = "zero"
    /\ commit_outcome[d] \in {"Committed", "NoChange"}
    /\ push_returncode[d] = "zero"
    /\ ~git_exception[d]

\* C16: a failure in any state of an attempt, the commit pipeline included,
\* sends the task to its next attempt or, after the last one, to FAILED; so
\* a task leaves its loop as a success only from an attempt whose commit
\* pipeline did not fail.
C16_CommitFailureRetried ==
    \A d \in Devices :
        pc[d] = "release" /\ result[d] = <<"Success">> => PipelineClean(d)

\* The stored files and the repository.
stored == <<worktree, index, head, history, remote>>

\* C19: a step of the connect, negotiate or fetch stage, failed or not,
\* leaves the stored files and the repository as they were; a file changes
\* only in the write step of its device, after a completed fetch; and a
\* device is in its git transaction only with the file of the same attempt
\* written.
C19_FailedAttemptFrame ==
    /\ [][\A d \in Devices :
             pc[d] \in {"connect", "negotiate", "fetch"} /\ pc'[d] # pc[d]
                 => UNCHANGED stored]_vars
    /\ [][\A f \in Files :
             worktree'[f] # worktree[f] =>
                 \E d \in Devices :
                     /\ Filename(d) = f
                     /\ pc[d] = "write"
                     /\ output[d] # Absent]_vars
    /\ [](\A d \in Devices :
             pc[d] \in {"chdir", "git_add", "git_commit", "git_push"} =>
                 /\ output[d] # Absent
                 /\ worktree[Filename(d)] = output[d])

\* A second attempt is under way after a first that failed before the
\* write, with files and repository as at the start.
C19_Witness ==
    \E d \in Devices :
        /\ pc[d] = "negotiate"
        /\ retry_count[d] = 1
        /\ output[d] = Absent
        /\ worktree = base /\ index = base /\ head = base
        /\ history = <<>> /\ remote = 0

====
